---- MODULE Spec2Model ----
(***************************************************************************)
(* A model of the MIG loader (src/src/mig/loader/loader.go), of the API's  *)
(* manifest endpoints (src/src/mig/api/manifest_endpoints.go) and of the   *)
(* manifest and bundle helpers of package mig (src/unnamed/part_000).      *)
(*                                                                         *)
(* Strings are TLA+ strings, byte slices are sequences of naturals, a file *)
(* system is a function from path strings to file records.                 *)
(***************************************************************************)
EXTENDS Integers, Sequences, FiniteSets, TLC

(***************************************************************************)
(* Bounds of the model.                                                    *)
(***************************************************************************)
\* Releases are numbered 0..MaxVersion; release v ships the content Content(v).
MaxVersion == 1

Versions == 0..MaxVersion

(***************************************************************************)
(* Byte contents and the digest engine.                                    *)
(***************************************************************************)
\* The content release v ships: two bytes of value v+1.  No proper prefix of
\* a release's content is the content of a release.
Content(v) == <<v + 1, v + 1>>

Contents == {Content(v) : v \in Versions}

\* Every proper prefix of a content: what an interrupted write leaves behind.
ProperPrefixes(c) == {SubSeq(c, 1, n) : n \in 0..(Len(c) - 1)}

\* One more than the largest byte value of the model.
ByteBase == MaxVersion + 3

\* h.Write(buf[:n]) over the whole stream, then h.Sum(nil): the hash state
\* after absorbing the bytes of c in order (collision free on the model's
\* byte strings, as SHA-256 is taken to be).
RECURSIVE Sha256Sum(_)
Sha256Sum(c) ==
    IF c = <<>> THEN 1
    ELSE Sha256Sum(SubSeq(c, 1, Len(c) - 1)) * ByteBase + c[Len(c)]

HexDigits == "0123456789abcdef"

\* fmt.Sprintf("%x", n): the lower-case hexadecimal digits of n.
RECURSIVE Sprintfx(_)
Sprintfx(n) ==
    IF n < 16 THEN SubSeq(HexDigits, n + 1, n + 1)
    ELSE Sprintfx(n \div 16) \o SubSeq(HexDigits, (n % 16) + 1, (n % 16) + 1)

\* fmt.Sprintf("%x", h.Sum(nil)) over the bytes c.
Sha256Hex(c) == Sprintfx(Sha256Sum(c))

(***************************************************************************)
(* compress/gzip: a header, the bytes, and a trailer of checksum and size. *)
(***************************************************************************)
GzipMagic == <<31, 139>>

RECURSIVE ByteSum(_)
ByteSum(c) == IF c = <<>> THEN 0 ELSE c[1] + ByteSum(Tail(c))

Crc32(c) == ByteSum(c) % 251

\* gzip.NewWriter(b); gz.Write(...); gz.Close(); b.Bytes()
Gzip(c) == GzipMagic \o c \o <<Crc32(c), Len(c)>>

\* A variant of the decompression that checks no trailer and loses the last
\* byte of the content.
GunzipLossy(p) ==
    IF Len(p) < 5 THEN [err |-> "gzip: invalid header", bytes |-> <<>>]
    ELSE [err |-> "", bytes |-> SubSeq(p, 3, Len(p) - 3)]

\* gzip.NewReader(b) followed by ioutil.ReadAll(gz)
Gunzip(p) ==
    IF Len(p) < 4 \/ SubSeq(p, 1, 2) # GzipMagic
    THEN [err |-> "gzip: invalid header", bytes |-> <<>>]
    ELSE LET body == SubSeq(p, 3, Len(p) - 2)
         IN  IF p[Len(p) - 1] # Crc32(body) \/ p[Len(p)] # Len(body)
             THEN [err |-> "gzip: invalid checksum", bytes |-> <<>>]
             ELSE [err |-> "", bytes |-> body]

(***************************************************************************)
(* path.Join                                                               *)
(***************************************************************************)
\* The elements of s between '/' characters, from the one that starts at
\* position start and has no '/' before position i.
RECURSIVE SplitSlash(_, _, _)
SplitSlash(s, start, i) ==
    IF i > Len(s) THEN <<SubSeq(s, start, Len(s))>>
    ELSE IF SubSeq(s, i, i) = "/"
    THEN <<SubSeq(s, start, i - 1)>> \o SplitSlash(s, i + 1, i + 1)
    ELSE SplitSlash(s, start, i + 1)

\* path.Clean on the elements of a rooted path: "" and "." are dropped, ".."
\* removes the element before it (and is dropped at the root).
RECURSIVE CleanElems(_, _)
CleanElems(elems, stack) ==
    IF elems = <<>> THEN stack
    ELSE LET e == Head(elems)
         IN  IF e = "" \/ e = "." THEN CleanElems(Tail(elems), stack)
             ELSE IF e = ".."
             THEN CleanElems(Tail(elems),
                             IF stack = <<>> THEN stack
                             ELSE SubSeq(stack, 1, Len(stack) - 1))
             ELSE CleanElems(Tail(elems), Append(stack, e))

RECURSIVE JoinSlash(_)
JoinSlash(elems) ==
    IF elems = <<>> THEN "" ELSE "/" \o Head(elems) \o JoinSlash(Tail(elems))

RECURSIVE SplitAll(_)
SplitAll(parts) ==
    IF parts = <<>> THEN <<>>
    ELSE SplitSlash(Head(parts), 1, 1) \o SplitAll(Tail(parts))

\* path.Join(parts...) where parts[1] is an absolute path: the parts are
\* joined by '/' and the result is cleaned.
JoinAndClean(parts) ==
    LET cleaned == CleanElems(SplitAll(parts), <<>>)
    IN  IF cleaned = <<>> THEN "/" ELSE JoinSlash(cleaned)

\* ctx.Manifest.Path
ManifestPath == "/m"

\* The joins the handlers make for the identities of the tiers the server
\* holds, computed once.
TierJoins ==
    LET dirs == {ManifestPath \o "/" \o op \o "/amd64/linux" :
                    op \in {"acme", "default"}}
    IN  {<<ManifestPath, op, "amd64", "linux">> : op \in {"acme", "default"}}
        \cup {<<d, "manifest.json">> : d \in dirs}
        \cup {<<d, "files", n>> : d \in dirs, n \in {"agent", "configuration"}}

JoinTable == [parts \in TierJoins |-> JoinAndClean(parts)]

\* path.Join(parts...)
PathJoin(parts) ==
    IF parts \in TierJoins THEN JoinTable[parts] ELSE JoinAndClean(parts)

(***************************************************************************)
(* Package mig: manifest parameters, manifests, the bundle dictionary.     *)
(***************************************************************************)
\* The characters of the class [A-Za-z0-9].
AlnumChars ==
    {SubSeq("ABCDEFGHIJKLMNOPQRSTUVWXYZabcdefghijklmnopqrstuvwxyz0123456789", i, i)
        : i \in 1..62}

\* regexp.MustCompile("^[A-Za-z0-9]+$").MatchString(s)
MatchString(s) ==
    /\ Len(s) > 0
    /\ \A i \in 1..Len(s) : SubSeq(s, i, i) \in AlnumChars

\* A variant of Validate that only refuses empty fields.
ValidateEmptyOnly(m) ==
    IF m.operator = "" \/ m.os = "" \/ m.arch = ""
    THEN "invalid manifest parameters"
    ELSE ""

\* ManifestParameters.Validate: "" is the nil error.
Validate(m) ==
    IF m.operator = "" \/ m.os = "" \/ m.arch = ""
    THEN "invalid manifest parameters"
    ELSE IF ~MatchString(m.operator) \/ ~MatchString(m.os) \/ ~MatchString(m.arch)
    THEN "bad characters in manifest parameters"
    ELSE ""

\* ManifestParameters.ValidateFetch: the identity of a fetch-artifact request
\* is validated as that of a fetch-manifest request is.
ValidateFetch(m) == Validate(m)

\* ManifestEntry{Name, SHA256}
ManifestEntry(n, d) == [name |-> n, sha256 |-> d]

\* ManifestResponse{}: a manifest is the sequence of its entries.
EmptyManifest == <<>>

\* bundleEntryLinux as compiled in: {Name, Path, SHA256}.
bundleEntryLinux ==
    << [name |-> "agent", path |-> "/sbin/mig-agent", sha256 |-> ""],
       [name |-> "configuration", path |-> "/etc/mig/mig-agent.cfg", sha256 |-> ""] >>

(***************************************************************************)
(* Files.  A file system maps a path to a file record; a path outside its  *)
(* domain, or mapped to NoFile, does not exist.                            *)
(***************************************************************************)
NoFile == [kind |-> "absent", entries |-> <<>>, bytes |-> <<>>]

\* A regular file holding the bytes c.
BytesFile(c) == [kind |-> "bytes", entries |-> <<>>, bytes |-> c]

\* A manifest.json holding the JSON of the manifest m.
ManifestFile(m) == [kind |-> "manifest", entries |-> m, bytes |-> <<>>]

\* A manifest.json that is not JSON.
GarbageFile == [kind |-> "garbage", entries |-> <<>>, bytes |-> <<>>]

FsLookup(fs, path) == IF path \in DOMAIN fs THEN fs[path] ELSE NoFile

(***************************************************************************)
(* The API: src/src/mig/api/manifest_endpoints.go                          *)
(***************************************************************************)
\* manifestLoad: os.Open, ioutil.ReadAll, json.Unmarshal.
manifestLoad(fs, path) ==
    LET f == FsLookup(fs, path)
    IN  IF f.kind = "absent"
        THEN [m |-> EmptyManifest, err |-> "open: no such file or directory"]
        ELSE IF f.kind # "manifest"
        THEN [m |-> EmptyManifest, err |-> "json: invalid character"]
        ELSE [m |-> f.entries, err |-> ""]

\* A variant of manifestRoot that prefers the default manifest.
manifestRootDefaultFirst(fs, p) ==
    LET Pick(proot, psecondary, primary, secondary, first, second) ==
            IF first.err = ""
            THEN [root |-> psecondary, m |-> first.m, err |-> "",
                  opened |-> {secondary}]
            ELSE IF second.err = ""
            THEN [root |-> proot, m |-> second.m, err |-> "",
                  opened |-> {primary, secondary}]
            ELSE [root |-> "", m |-> EmptyManifest,
                  err |-> "unable to locate manifest",
                  opened |-> {primary, secondary}]
        Load(proot, psecondary, primary, secondary) ==
            Pick(proot, psecondary, primary, secondary,
                 manifestLoad(fs, secondary), manifestLoad(fs, primary))
        Locate(proot, psecondary) ==
            Load(proot, psecondary, PathJoin(<<proot, "manifest.json">>),
                 PathJoin(<<psecondary, "manifest.json">>))
    IN  Locate(PathJoin(<<ManifestPath, p.operator, p.arch, p.os>>),
               PathJoin(<<ManifestPath, "default", p.arch, p.os>>))

\* manifestRoot: the operator's manifest, else the default one.  opened is the
\* set of paths handed to os.Open: the second manifest is opened only when the
\* first did not load.
manifestRoot(fs, p) ==
    LET Pick(proot, psecondary, primary, secondary, first, second) ==
            IF first.err = ""
            THEN [root |-> proot, m |-> first.m, err |-> "", opened |-> {primary}]
            ELSE IF second.err = ""
            THEN [root |-> psecondary, m |-> second.m, err |-> "",
                  opened |-> {primary, secondary}]
            ELSE [root |-> "", m |-> EmptyManifest,
                  err |-> "unable to locate manifest",
                  opened |-> {primary, secondary}]
        Load(proot, psecondary, primary, secondary) ==
            Pick(proot, psecondary, primary, secondary,
                 manifestLoad(fs, primary), manifestLoad(fs, secondary))
        Locate(proot, psecondary) ==
            Load(proot, psecondary, PathJoin(<<proot, "manifest.json">>),
                 PathJoin(<<psecondary, "manifest.json">>))
    IN  Locate(PathJoin(<<ManifestPath, p.operator, p.arch, p.os>>),
               PathJoin(<<ManifestPath, "default", p.arch, p.os>>))

\* A variant of loadContent that does not compare the digests.
loadContentUnchecked(fs, path, sig, readFail) ==
    LET f == FsLookup(fs, path)
    IN  IF f.kind = "absent"
        THEN [buf |-> <<>>, err |-> "unable to load manifest object"]
        ELSE IF readFail
        THEN [buf |-> <<>>, err |-> "read: input/output error"]
        ELSE [buf |-> Gzip(f.bytes), err |-> ""]

\* loadContent: read, hash and compress the file; buf = <<>> is the nil slice.
\* readFail says whether fd.Read fails.
loadContent(fs, path, sig, readFail) ==
    LET f == FsLookup(fs, path)
    IN  IF f.kind = "absent"
        THEN [buf |-> <<>>, err |-> "unable to load manifest object"]
        ELSE IF readFail
        THEN [buf |-> <<>>, err |-> "read: input/output error"]
        ELSE IF Sha256Hex(f.bytes) # sig
        THEN [buf |-> <<>>, err |-> "manifest signature did not match file"]
        ELSE [buf |-> Gzip(f.bytes), err |-> ""]

\* The deferred recover(): resource.SetError and respond(500, ...).  The
\* resource holds no item.  rootCalled, root and opened record what the
\* handler did before it panicked: whether it called manifestRoot, the root
\* manifestRoot returned, the paths handed to os.Open.
Respond500(msg, called, dir, paths) ==
    [code |-> 500, items |-> <<>>, err |-> msg, rootCalled |-> called,
     root |-> dir, opened |-> paths]

\* resource.AddItem(...) and respond(200, ...): one item, whose first data
\* value is v.
Respond200(v, dir, paths) ==
    [code |-> 200, items |-> <<v>>, err |-> "", rootCalled |-> TRUE,
     root |-> dir, opened |-> paths]

\* A variant of the lookup that takes the first entry, whatever its name.
FirstManifestEntry(m, n) == IF m = <<>> THEN 0 ELSE 1

\* getManifestFile's loop over manifest.Entries: the index of the first entry
\* named n, 0 for the nil mentry.
FindManifestEntry(m, n) ==
    IF \E i \in 1..Len(m) : m[i].name = n
    THEN CHOOSE i \in 1..Len(m) :
            /\ m[i].name = n
            /\ \A j \in 1..(i - 1) : m[j].name # n
    ELSE 0

\* getAgentManifest.  r.form = "bad" is a body that ParseMultipartForm or
\* json.Unmarshal refuses.
getAgentManifest(fs, r) ==
    LET Answer(mr) ==
            IF mr.err # "" THEN Respond500(mr.err, TRUE, mr.root, mr.opened)
            ELSE Respond200([name |-> "manifest", manifest |-> mr.m, data |-> <<>>],
                            mr.root, mr.opened)
        Checked(err) ==
            IF err # "" THEN Respond500(err, FALSE, "", {})
            ELSE Answer(manifestRoot(fs, r))
    IN  IF r.form # "ok" THEN Respond500("bad request", FALSE, "", {})
        ELSE Checked(Validate(r))

\* getManifestFile.
getManifestFile(fs, r, readFail) ==
    LET Send(mr, filepath, lc) ==
            IF lc.err # ""
            THEN Respond500(lc.err, TRUE, mr.root, mr.opened \cup {filepath})
            ELSE Respond200([name |-> "content", manifest |-> EmptyManifest,
                             data |-> lc.buf],
                            mr.root, mr.opened \cup {filepath})
        Load(mr, mentry, filepath) ==
            Send(mr, filepath, loadContent(fs, filepath, mentry.sha256, readFail))
        Lookup(mr, i) ==
            IF i = 0
            THEN Respond500("requested object does not exist in manifest",
                            TRUE, mr.root, mr.opened)
            ELSE Load(mr, mr.m[i], PathJoin(<<mr.root, "files", mr.m[i].name>>))
        Answer(mr) ==
            IF mr.err # "" THEN Respond500(mr.err, TRUE, mr.root, mr.opened)
            ELSE Lookup(mr, FindManifestEntry(mr.m, r.object))
        Checked(err) ==
            IF err # "" THEN Respond500(err, FALSE, "", {})
            ELSE Answer(manifestRoot(fs, r))
    IN  IF r.form # "ok" THEN Respond500("bad request", FALSE, "", {})
        ELSE Checked(ValidateFetch(r))

(***************************************************************************)
(* The files the server's operator publishes:                              *)
(*   {ManifestPath}/{operator}/{arch}/{os}/manifest.json                   *)
(*   {ManifestPath}/{operator}/{arch}/{os}/files/{name}                    *)
(***************************************************************************)
TierDir(op) == PathJoin(<<ManifestPath, op, "amd64", "linux">>)

TierFiles(op, man, agent, conf) ==
    (PathJoin(<<TierDir(op), "manifest.json">>) :> man)
    @@ (PathJoin(<<TierDir(op), "files", "agent">>) :> agent)
    @@ (PathJoin(<<TierDir(op), "files", "configuration">>) :> conf)

\* The manifest of release v, with or without the configuration.
ReleaseManifest(v, withConf) ==
    <<ManifestEntry("agent", Sha256Hex(Content(v)))>>
    \o (IF withConf THEN <<ManifestEntry("configuration", Sha256Hex(Content(v)))>>
        ELSE <<>>)

ConfFile(v, withConf) == IF withConf THEN BytesFile(Content(v)) ELSE NoFile

\* A tier whose files are those its manifest records.
PublishedTier(op, v, withConf) ==
    TierFiles(op, ManifestFile(ReleaseManifest(v, withConf)),
              BytesFile(Content(v)), ConfFile(v, withConf))

EmptyTier(op) == TierFiles(op, NoFile, NoFile, NoFile)

ConsistentTiers(op) ==
    {EmptyTier(op)}
    \cup {PublishedTier(op, v, wc) : v \in Versions, wc \in BOOLEAN}

\* Every tier of the model: no manifest, a manifest that does not parse, or a
\* manifest beside an agent file that may have drifted from it or be missing.
AnyTiers(op) ==
    {EmptyTier(op), TierFiles(op, GarbageFile, NoFile, NoFile)}
    \cup {TierFiles(op, ManifestFile(ReleaseManifest(v, wc)), a, ConfFile(v, wc)) :
            v \in Versions, wc \in BOOLEAN,
            a \in {NoFile} \cup {BytesFile(c) : c \in Contents}}

\* The operator tier of the model's server states.
AcmeTiers ==
    {EmptyTier("acme"), TierFiles("acme", GarbageFile, NoFile, NoFile),
     PublishedTier("acme", MaxVersion, TRUE)}

ServerStates == {a @@ d : a \in AcmeTiers, d \in AnyTiers("default")}

(***************************************************************************)
(* Requests.                                                               *)
(***************************************************************************)
NoReq == [endpoint |-> "none", form |-> "", operator |-> "", os |-> "",
          arch |-> "", object |-> ""]

NoResp == [code |-> 0, items |-> <<>>, err |-> "", rootCalled |-> FALSE,
           root |-> "", opened |-> {}]

\* The requests any client may send to the API.
Requests ==
    [endpoint : {"manifest", "manifest/fetch"},
     form : {"ok", "bad"},
     operator : {"", "acme", "default", "../../etc"},
     os : {"linux", "a/b"},
     arch : {"amd64", ".."},
     object : {"agent", "configuration", "../manifest.json"}]

\* The handler the request's URL is routed to.
Handle(fs, r, readFail) ==
    IF r.endpoint = "manifest" THEN getAgentManifest(fs, r)
    ELSE getManifestFile(fs, r, readFail)

VARIABLES
    srv,          \* the server's file system
    req,          \* the request the API handled last
    resp,         \* its response
    operator,     \* TAGS.Operator of the loader
    goos,         \* runtime.GOOS of the loader
    disk,         \* the host's file system
    pc,           \* where the loader process is
    dict,         \* the array behind bundleEntryLinux in the loader process
    have,         \* main's have
    apiManifest,  \* the global apiManifest
    idx,          \* the index of compareManifest's loop
    sig,          \* fetchAndReplace's sig
    filebuf,      \* fetchAndReplace's filebuf
    fds,          \* the files the loader process holds open
    fetched,      \* the objects the process has requested from manifest/fetch
    failed        \* the entry whose error main reported, "" if none

vars == <<srv, req, resp, operator, goos, disk, pc, dict, have,
          apiManifest, idx, sig, filebuf, fds, fetched, failed>>

loaderVars == <<operator, goos, disk, pc, dict, have, apiManifest, idx,
                sig, filebuf, fds, fetched, failed>>

\* The nil *mig.ManifestResponse.
NilManifest == [nil |-> TRUE, entries |-> <<>>]

\* A variant of the staged path that is the target path itself.
StagedPathInPlace(path) == path

\* fetchAndReplace: reppath := entry.Path + ".loader"
StagedPath(path) == path \o ".loader"

\* The paths of the host the loader touches.
HostPaths ==
    {bundleEntryLinux[i].path : i \in 1..Len(bundleEntryLinux)}
    \cup {StagedPath(bundleEntryLinux[i].path) : i \in 1..Len(bundleEntryLinux)}

\* A loader that has not been started.
LoaderIdle ==
    /\ pc = "idle"
    /\ dict = bundleEntryLinux
    /\ have = <<>>
    /\ apiManifest = NilManifest
    /\ idx = 0
    /\ sig = ""
    /\ filebuf = <<>>
    /\ fds = 0
    /\ fetched = {}
    /\ failed = ""

(***************************************************************************)
(* The API alone, serving the requests of any client.                      *)
(***************************************************************************)
InitServer ==
    /\ srv \in ServerStates
    /\ req = NoReq
    /\ resp = NoResp
    /\ operator = "acme"
    /\ goos = "linux"
    /\ disk = [p \in HostPaths |-> NoFile]
    /\ LoaderIdle

\* A client sends r; the handler runs to its response.
ApiRequest ==
    \E r \in Requests, readFail \in BOOLEAN :
        /\ req = NoReq
        /\ req' = r
        /\ resp' = Handle(srv, r, readFail)
        /\ UNCHANGED srv
        /\ UNCHANGED loaderVars

\* The response has been written; the API waits for the next request.
ApiRespond ==
    /\ req # NoReq
    /\ req' = NoReq
    /\ resp' = NoResp
    /\ UNCHANGED srv
    /\ UNCHANGED loaderVars

NextServer == ApiRequest \/ ApiRespond

SpecServer == InitServer /\ [][NextServer]_vars

(***************************************************************************)
(* Properties of the API.                                                  *)
(***************************************************************************)
\* The identity of the request handled last is one the API must refuse.
BadIdentity(r) ==
    ~(MatchString(r.operator) /\ MatchString(r.os) /\ MatchString(r.arch))

\* The response is an error that carries no item.
ErrorResponse(r) == r.code = 500 /\ r.items = <<>> /\ r.err # ""

\* C4: on fetch-manifest and on fetch-artifact, a request whose operator,
\* platform or architecture is empty or does not match ^[A-Za-z0-9]+$ ends
\* with an error response, manifestRoot was not called for it and no file was
\* opened.
C4_BadIdentityRejected ==
    (req # NoReq /\ BadIdentity(req)) =>
        /\ ErrorResponse(resp)
        /\ ~resp.rootCalled
        /\ resp.opened = {}

\* A well-formed fetch-artifact request for operator "../../etc" was refused.
C4_Witness ==
    /\ req.endpoint = "manifest/fetch"
    /\ req.form = "ok"
    /\ req.operator = "../../etc"
    /\ req.os = "linux"
    /\ req.arch = "amd64"
    /\ resp.code = 500

\* The directory and the manifest file of an operator, for a valid identity.
DirOf(op, r) == ManifestPath \o "/" \o op \o "/" \o r.arch \o "/" \o r.os

ManifestAt(dir) == FsLookup(srv, dir \o "/manifest.json")

\* The request handled last got as far as manifestRoot.
Resolving == req # NoReq /\ req.form = "ok" /\ ~BadIdentity(req)

\* C5: manifestRoot returns the operator's manifest and directory if that
\* manifest loads and parses, else the default manifest and directory if that
\* one loads and parses, else fails with "unable to locate manifest".
C5_TwoTierPrecedence ==
    Resolving =>
        /\ resp.rootCalled
        /\ IF ManifestAt(DirOf(req.operator, req)).kind = "manifest"
           THEN /\ resp.root = DirOf(req.operator, req)
                /\ req.endpoint = "manifest" =>
                      /\ resp.code = 200
                      /\ resp.items[1].manifest =
                            ManifestAt(DirOf(req.operator, req)).entries
           ELSE IF ManifestAt(DirOf("default", req)).kind = "manifest"
           THEN /\ resp.root = DirOf("default", req)
                /\ req.endpoint = "manifest" =>
                      /\ resp.code = 200
                      /\ resp.items[1].manifest =
                            ManifestAt(DirOf("default", req)).entries
           ELSE /\ ErrorResponse(resp)
                /\ resp.err = "unable to locate manifest"

\* The operator's manifest does not parse, the default one does and is served.
C5_Witness ==
    /\ req.endpoint = "manifest"
    /\ Resolving
    /\ req.operator = "acme"
    /\ ManifestAt(DirOf("acme", req)).kind = "garbage"
    /\ ManifestAt(DirOf("default", req)).kind = "manifest"
    /\ resp.code = 200
    /\ resp.root = DirOf("default", req)

\* The entries of the resolved manifest that carry the requested name.
ResolvedEntries ==
    LET m == ManifestAt(resp.root).entries
    IN  {i \in 1..Len(m) : m[i].name = req.object}

\* The file of the resolved tier that holds the requested object.
ObjectFile == FsLookup(srv, resp.root \o "/files/" \o req.object)

\* The request handled last is a fetch-artifact request that resolved a manifest.
FetchResolved ==
    /\ Resolving
    /\ req.endpoint = "manifest/fetch"
    /\ resp.root # ""

\* C6: when the file of the requested object has a digest other than the one
\* the resolved manifest records for it, the response is an error and carries
\* no data.
C6_DriftFailsClosed ==
    (/\ FetchResolved
     /\ ObjectFile.kind = "bytes"
     /\ \E i \in ResolvedEntries :
            ManifestAt(resp.root).entries[i].sha256 # Sha256Hex(ObjectFile.bytes))
    => ErrorResponse(resp)

\* A drifted file was refused for its digest.
C6_Witness ==
    /\ FetchResolved
    /\ ObjectFile.kind = "bytes"
    /\ resp.err = "manifest signature did not match file"

\* path is a file under dir/files/.
UnderFiles(path, dir) ==
    /\ Len(path) > Len(dir) + 7
    /\ SubSeq(path, 1, Len(dir) + 7) = dir \o "/files/"

\* C7: a fetch-artifact request for a name the resolved manifest does not hold
\* ends with an error and opens no file under root/files/; a request that is
\* served opened root/files/{name} for the name of an entry of that manifest,
\* and no other file under root/files/.
C7_OnlyManifestEntriesServed ==
    FetchResolved =>
        /\ ResolvedEntries = {} =>
              /\ ErrorResponse(resp)
              /\ \A path \in resp.opened : ~UnderFiles(path, resp.root)
        /\ resp.code = 200 =>
              /\ ResolvedEntries # {}
              /\ {path \in resp.opened : UnderFiles(path, resp.root)}
                    = {resp.root \o "/files/" \o req.object}

\* The manifest lists the agent alone and the configuration was asked for.
C7_Witness ==
    /\ FetchResolved
    /\ req.object = "configuration"
    /\ Len(ManifestAt(resp.root).entries) = 1
    /\ ResolvedEntries = {}
    /\ resp.err = "requested object does not exist in manifest"

(***************************************************************************)
(* The loader: src/src/mig/loader/loader.go, and the bundle functions of   *)
(* package mig it calls.                                                   *)
(***************************************************************************)
\* runtime.GOARCH of the loader
GOARCH == "amd64"

\* GetHostBundle: the slice bundleEntryLinux itself, whose array is b.
GetHostBundle(os, b) ==
    IF os = "linux" THEN [ret |-> b, err |-> ""]
    ELSE [ret |-> <<>>, err |-> "GetHostBundle() -> no entry in bundle dictionary"]

\* HashBundle's loop from entry i on.  ret := b shares b's array, so arr is
\* what the caller's array holds when HashBundle returns.  errAt is the entry
\* at which os.Open fails for another reason than a missing file, or fd.Read
\* fails; 0 if none does.
RECURSIVE HashBundleFrom(_, _, _, _)
HashBundleFrom(b, fs, errAt, i) ==
    IF i > Len(b) THEN [ret |-> b, err |-> "", arr |-> b]
    ELSE IF errAt = i
    THEN [ret |-> <<>>, err |-> "input/output error", arr |-> b]
    ELSE IF FsLookup(fs, b[i].path).kind = "absent"
    THEN HashBundleFrom(b, fs, errAt, i + 1)
    ELSE HashBundleFrom(
            [b EXCEPT ![i].sha256 = Sha256Hex(FsLookup(fs, b[i].path).bytes)],
            fs, errAt, i + 1)

\* A variant of HashBundle that returns, with the error, the entries as far as
\* they were hashed.
HashBundlePartial(b, fs, errAt) ==
    LET h == HashBundleFrom(b, fs, errAt, 1)
    IN  [ret |-> h.arr, err |-> h.err, arr |-> h.arr]

HashBundle(b, fs, errAt) == HashBundleFrom(b, fs, errAt, 1)

\* A variant of checkEntry's lookup that matches any entry.
FindCompareAny(m, n) == IF m = <<>> THEN 0 ELSE 1

\* checkEntry's loop over apiManifest.Entries: the index of the first entry
\* named n, 0 if found stays false.
FindCompare(m, n) ==
    IF \E i \in 1..Len(m) : m[i].name = n
    THEN CHOOSE i \in 1..Len(m) :
            /\ m[i].name = n
            /\ \A j \in 1..(i - 1) : m[j].name # n
    ELSE 0

\* A variant of the staged file's check that accepts every file.
SignatureMismatchNever(want, staged) == FALSE

\* fetchAndReplace: sig != fmt.Sprintf("%x", h.Sum(nil)) over the staged bytes.
SignatureMismatch(want, staged) == want # Sha256Hex(staged)

\* The parameters requestManifest sends.
ManifestRequest ==
    [endpoint |-> "manifest", form |-> "ok",
     operator |-> IF operator = "" THEN "default" ELSE operator,
     os |-> goos, arch |-> GOARCH, object |-> ""]

\* The parameters fetchFile sends for the object n.
FetchRequest(n) ==
    [endpoint |-> "manifest/fetch", form |-> "ok", operator |-> operator,
     os |-> goos, arch |-> GOARCH, object |-> n]

\* The server states a loader starts against: no operator tier, and a default
\* tier that is missing or is a published release.
DefaultTiers == ConsistentTiers("default")

LoaderServerStates == {EmptyTier("acme") @@ d : d \in DefaultTiers}

TargetPaths == {bundleEntryLinux[i].path : i \in 1..Len(bundleEntryLinux)}

Init ==
    /\ srv \in LoaderServerStates
    /\ req = NoReq
    /\ resp = NoResp
    /\ operator \in {"", "acme"}
    /\ goos \in {"linux", "darwin"}
    /\ \E installed \in [TargetPaths -> {NoFile} \cup {BytesFile(c) : c \in Contents}] :
          disk = [p \in HostPaths |-> IF p \in TargetPaths THEN installed[p] ELSE NoFile]
    /\ LoaderIdle

Running == {"snapshot", "manifest", "compare", "fetch", "stage", "write",
            "verify", "rename"}

Ended == {"exit0", "exit1", "panic", "killed"}

\* The server's operator publishes a release on the default tier, or
\* withdraws the tier.  The loader sees the server's files only through its
\* two requests, so the change is taken where the next step is a request.
Publish ==
    /\ pc \in {"manifest", "fetch"}
    /\ \E tier \in DefaultTiers :
          /\ srv' = tier @@ srv
          /\ srv' # srv
    /\ UNCHANGED <<req, resp>>
    /\ UNCHANGED loaderVars

\* The memory of a process that does not run: the globals as compiled in, no
\* open file, no request under way.
FreshProcess ==
    /\ dict' = bundleEntryLinux
    /\ have' = <<>>
    /\ apiManifest' = NilManifest
    /\ idx' = 0
    /\ sig' = ""
    /\ filebuf' = <<>>
    /\ fds' = 0
    /\ fetched' = {}
    /\ failed' = ""
    /\ req' = NoReq
    /\ resp' = NoResp

\* The loader is scheduled: a new process starts in main.
Start ==
    /\ pc \in {"idle"} \cup Ended
    /\ pc' = "snapshot"
    /\ FreshProcess
    /\ UNCHANGED <<srv, operator, goos, disk>>

\* A variant of main that reports the error and returns.
Exit1Ignored(name) ==
    /\ pc' = "exit0"
    /\ failed' = name

\* main: os.Exit(1) after an error; name is the entry checkEntry failed on.
Exit1(name) ==
    /\ pc' = "exit1"
    /\ failed' = name

\* main's call of initializeHaveBundle.
InitializeHaveBundle ==
    /\ pc = "snapshot"
    /\ \E errAt \in 0..Len(dict) :
          LET g == GetHostBundle(goos, dict)
              h == HashBundle(g.ret, disk, errAt)
          IN  IF g.err # ""
              THEN /\ errAt = 0
                   /\ Exit1("")
                   /\ UNCHANGED <<dict, have>>
              ELSE IF h.err # ""
              THEN /\ Exit1("")
                   /\ dict' = h.arr
                   /\ UNCHANGED have
              ELSE /\ pc' = "manifest"
                   /\ dict' = h.arr
                   /\ have' = h.ret
                   /\ UNCHANGED failed
    /\ UNCHANGED <<srv, req, resp, operator, goos, disk, apiManifest,
                   idx, sig, filebuf, fds, fetched>>

\* main's call of requestManifest.  A response without items makes
\* resource.Collection.Items[0] panic.
RequestManifest ==
    /\ pc = "manifest"
    /\ \E net \in {"ok", "fail"} :
          IF net = "fail"
          THEN /\ Exit1("")
               /\ UNCHANGED <<req, resp, apiManifest, idx>>
          ELSE \E rs \in {Handle(srv, ManifestRequest, FALSE)} :
                   /\ req' = ManifestRequest
                   /\ resp' = rs
                   /\ IF rs.items = <<>>
                      THEN /\ pc' = "panic"
                           /\ UNCHANGED <<apiManifest, idx, failed>>
                      ELSE /\ apiManifest' =
                                 [nil |-> FALSE, entries |-> rs.items[1].manifest]
                           /\ pc' = "compare"
                           /\ idx' = 1
                           /\ UNCHANGED failed
    /\ UNCHANGED <<srv, operator, goos, disk, dict, have, sig,
                   filebuf, fds, fetched>>

\* compareManifest's loop is over: main returns.
CompareDone ==
    /\ pc = "compare"
    /\ idx > Len(have)
    /\ pc' = "exit0"
    /\ UNCHANGED <<srv, req, resp, operator, goos, disk, dict, have,
                   apiManifest, idx, sig, filebuf, fds, fetched, failed>>

\* checkEntry(have[idx]) up to its call of fetchAndReplace.
CheckEntry ==
    /\ pc = "compare"
    /\ idx <= Len(have)
    /\ LET i == FindCompare(apiManifest.entries, have[idx].name)
       IN  IF i = 0
           THEN /\ idx' = idx + 1
                /\ UNCHANGED <<pc, sig>>
           ELSE /\ sig' = apiManifest.entries[i].sha256
                /\ pc' = "fetch"
                /\ UNCHANGED idx
    /\ UNCHANGED <<srv, req, resp, operator, goos, disk, dict, have,
                   apiManifest, filebuf, fds, fetched, failed>>

\* What the transport hands fetchFile for the payload data the API sent:
\* the payload, or the payload cut short.
Delivered(net, data) ==
    IF net = "garbled" THEN SubSeq(data, 1, Len(data) - 1) ELSE data

\* fetchAndReplace's call of fetchFile(entry.Name).
FetchFile ==
    /\ pc = "fetch"
    /\ fetched' = fetched \cup {have[idx].name}
    /\ \E net \in {"ok", "garbled", "fail"}, readFail \in BOOLEAN :
          IF net = "fail"
          THEN /\ ~readFail
               /\ Exit1(have[idx].name)
               /\ UNCHANGED <<req, resp, filebuf>>
          ELSE \E rs \in {Handle(srv, FetchRequest(have[idx].name), readFail)} :
                   /\ req' = FetchRequest(have[idx].name)
                   /\ resp' = rs
                   /\ IF rs.items = <<>>
                      THEN /\ net = "ok"
                           /\ pc' = "panic"
                           /\ UNCHANGED <<filebuf, failed>>
                      ELSE \E gz \in {Gunzip(Delivered(net, rs.items[1].data))} :
                               IF gz.err # ""
                               THEN /\ Exit1(have[idx].name)
                                    /\ UNCHANGED filebuf
                               ELSE /\ filebuf' = gz.bytes
                                    /\ pc' = "stage"
                                    /\ UNCHANGED failed
    /\ UNCHANGED <<srv, operator, goos, disk, dict, have, apiManifest, idx,
                   sig, fds>>

\* fetchAndReplace: os.OpenFile(reppath, O_CREATE|O_TRUNC|O_WRONLY, 0700).
OpenStaged ==
    /\ pc = "stage"
    /\ \E ok \in BOOLEAN :
          IF ok
          THEN /\ disk' = [disk EXCEPT ![StagedPath(have[idx].path)] = BytesFile(<<>>)]
               /\ fds' = fds + 1
               /\ pc' = "write"
               /\ UNCHANGED failed
          ELSE /\ Exit1(have[idx].name)
               /\ UNCHANGED <<disk, fds>>
    /\ UNCHANGED <<srv, req, resp, operator, goos, dict, have,
                   apiManifest, idx, sig, filebuf, fetched>>

\* fetchAndReplace: fd.Write(filebuf) and fd.Close().  A write that fails has
\* written n bytes, and the function returns without closing fd.
WriteStaged ==
    /\ pc = "write"
    /\ \E n \in 0..Len(filebuf) :
          /\ disk' = [disk EXCEPT ![StagedPath(have[idx].path)] =
                                      BytesFile(SubSeq(filebuf, 1, n))]
          /\ IF n = Len(filebuf)
             THEN /\ fds' = fds - 1
                  /\ pc' = "verify"
                  /\ UNCHANGED failed
             ELSE /\ Exit1(have[idx].name)
                  /\ UNCHANGED fds
    /\ UNCHANGED <<srv, req, resp, operator, goos, dict, have,
                   apiManifest, idx, sig, filebuf, fetched>>

\* fetchAndReplace: the staged file is opened, read and hashed, and its digest
\* compared with sig.
VerifyStaged ==
    /\ pc = "verify"
    /\ \E io \in {"ok", "open fails", "read fails"} :
          IF io # "ok"
          THEN Exit1(have[idx].name)
          ELSE IF SignatureMismatch(sig, disk[StagedPath(have[idx].path)].bytes)
          THEN Exit1(have[idx].name)
          ELSE /\ pc' = "rename"
               /\ UNCHANGED failed
    /\ UNCHANGED <<srv, req, resp, operator, goos, disk, dict, have,
                   apiManifest, idx, sig, filebuf, fds, fetched>>

\* fetchAndReplace: os.Rename(reppath, entry.Path), whose error is dropped,
\* and return nil; checkEntry returns nil and compareManifest goes on.
RenameStaged ==
    /\ pc = "rename"
    /\ \E ok \in BOOLEAN :
          IF ok
          THEN disk' = [disk EXCEPT
                          ![have[idx].path] = disk[StagedPath(have[idx].path)],
                          ![StagedPath(have[idx].path)] = NoFile]
          ELSE UNCHANGED disk
    /\ idx' = idx + 1
    /\ pc' = "compare"
    /\ UNCHANGED <<srv, req, resp, operator, goos, dict, have,
                   apiManifest, sig, filebuf, fds, fetched, failed>>

\* The process is killed.  A kill during fd.Write leaves the bytes written
\* so far in the staged file.
Kill ==
    /\ pc \in Running
    /\ pc' = "killed"
    /\ IF pc = "write"
       THEN \E n \in 0..(Len(filebuf) - 1) :
               disk' = [disk EXCEPT ![StagedPath(have[idx].path)] =
                                        BytesFile(SubSeq(filebuf, 1, n))]
       ELSE UNCHANGED disk
    /\ FreshProcess
    /\ UNCHANGED <<srv, operator, goos>>

Next ==
    \/ Publish
    \/ Start
    \/ InitializeHaveBundle
    \/ RequestManifest
    \/ CompareDone
    \/ CheckEntry
    \/ FetchFile
    \/ OpenStaged
    \/ WriteStaged
    \/ VerifyStaged
    \/ RenameStaged
    \/ Kill

Spec == Init /\ [][Next]_vars

(***************************************************************************)
(* Properties of the loader.                                               *)
(***************************************************************************)
\* The name the bundle dictionary gives the target path t.
BundleName(t) ==
    bundleEntryLinux[CHOOSE i \in 1..Len(bundleEntryLinux) :
                        bundleEntryLinux[i].path = t].name

\* The digests the manifest held by the loader records for the name n.
ManifestDigests(n) ==
    {apiManifest.entries[j].sha256 :
        j \in {k \in 1..Len(apiManifest.entries) : apiManifest.entries[k].name = n}}

\* The digest of the file f; "" if there is no file.
DigestOf(f) == IF f.kind = "absent" THEN "" ELSE Sha256Hex(f.bytes)

\* The step is one of the loader process, which is not killed in it.
LoaderStep == pc' # pc /\ pc' # "killed"

\* C1: a staged payload whose digest is not the manifest entry's is never
\* renamed over the target: the update ends with an error reported for that
\* entry, the staged file holding the payload and every target unchanged.
\* Whenever the content of a target path changes, the digest of the new
\* content is the digest the manifest records for the entry.
C1_MismatchNeverInstalled ==
    [][ /\ \A t \in TargetPaths :
              disk'[t] # disk[t] =>
                  /\ disk'[t].kind = "bytes"
                  /\ Sha256Hex(disk'[t].bytes) \in ManifestDigests(BundleName(t))
        /\ (/\ pc = "verify"
            /\ LoaderStep
            /\ DigestOf(disk[StagedPath(have[idx].path)])
                  \notin ManifestDigests(have[idx].name))
           => /\ pc' = "exit1"
              /\ failed' = have[idx].name
              /\ disk' = disk
              /\ disk[StagedPath(have[idx].path)] = BytesFile(filebuf)
      ]_vars

\* The update of the agent ended on a staged file whose digest is not the
\* manifest's; the staged file is there.
C1_Witness ==
    /\ pc = "exit1"
    /\ failed = "agent"
    /\ disk[StagedPath("/sbin/mig-agent")] = BytesFile(filebuf)
    /\ filebuf \in Contents
    /\ Sha256Hex(filebuf) \notin ManifestDigests("agent")
    /\ ManifestDigests("agent") # {}

\* The snapshot's entry i is current: the manifest records its digest.
Current(i) == have[i].sha256 \in ManifestDigests(have[i].name)

\* The loader is in fetchAndReplace for the snapshot's entry i.
Updating(i) ==
    /\ pc \in {"fetch", "stage", "write", "verify", "rename"}
    /\ idx = i

\* C2: an entry whose local digest equals the manifest's is skipped: no
\* fetch-artifact request is issued for it and fetchAndReplace is not entered.
C2_CurrentEntrySkipped ==
    \A i \in 1..Len(have) :
        Current(i) => (have[i].name \notin fetched /\ ~Updating(i))

\* The run is over and main has reported the failure of an entry's update.
UpdateFailed == pc = "exit1" /\ failed # ""

\* C3: when the update of an entry has failed, every later entry of the
\* snapshot that the manifest records with another digest has been fetched by
\* the end of the run.
C3_LaterEntriesProcessed ==
    UpdateFailed =>
        \A i \in 1..Len(have) :
            (/\ have[i].name # failed
             /\ ManifestDigests(have[i].name) # {}
             /\ ~Current(i))
            => have[i].name \in fetched

\* C8: at the end of a run that obtained a manifest, a fetch-artifact request
\* has been issued for every entry whose file was absent and which the
\* manifest names.
C8_AbsentEntryFetched ==
    (pc \in {"exit0", "exit1"} /\ ~apiManifest.nil) =>
        \A i \in 1..Len(have) :
            (have[i].sha256 = "" /\ ManifestDigests(have[i].name) # {})
            => have[i].name \in fetched

\* checkEntry is about to run on an entry the manifest does not name.
Ungoverned ==
    /\ pc = "compare"
    /\ idx <= Len(have)
    /\ ManifestDigests(have[idx].name) = {}

\* C9: checkEntry on an entry the manifest does not name returns nil: the loop
\* goes on to the next entry, no request is sent, no error is reported and no
\* file of the host changes.
C9_UngovernedEntrySkipped ==
    [][ (Ungoverned /\ pc' # "killed" /\ <<pc, idx>>' # <<pc, idx>>)
        => /\ pc' = "compare"
           /\ idx' = idx + 1
           /\ failed' = failed
           /\ fetched' = fetched
           /\ req' = req
           /\ disk' = disk
      ]_vars

\* The manifest names the agent alone; the configuration was passed over.
C9_Witness ==
    /\ pc = "compare"
    /\ idx = 3
    /\ have[2].name = "configuration"
    /\ ManifestDigests("agent") # {}
    /\ ManifestDigests("configuration") = {}
    /\ "configuration" \notin fetched
    /\ failed = ""

\* C10: only the rename changes a target path, and it replaces the target
\* by the whole staged file, which holds the whole fetched content; every
\* other write, whole or partial, and a kill at any point, changes at most
\* the staged path of the entry being updated.
C10_RenameSoleMutator ==
    [][ /\ \A t \in TargetPaths :
              disk'[t] # disk[t] =>
                  /\ pc = "rename"
                  /\ pc' # "killed"
                  /\ t = have[idx].path
                  /\ disk[StagedPath(t)] = BytesFile(filebuf)
                  /\ disk'[t] = BytesFile(filebuf)
                  /\ ~SignatureMismatch(sig, filebuf)
        /\ \A t \in TargetPaths :
              disk'[StagedPath(t)] # disk[StagedPath(t)] =>
                  /\ pc \in {"stage", "write", "rename"}
                  /\ t = have[idx].path
      ]_vars

\* The process was killed while it wrote the staged file of the agent: the
\* staged file is a proper prefix of a release, the target is whole.
C10_Witness ==
    /\ pc = "killed"
    /\ disk["/sbin/mig-agent"].kind = "bytes"
    /\ disk["/sbin/mig-agent"].bytes \in Contents
    /\ disk[StagedPath("/sbin/mig-agent")].kind = "bytes"
    /\ disk[StagedPath("/sbin/mig-agent")].bytes
          \in UNION {ProperPrefixes(c) \ {<<>>} : c \in Contents}

\* The loader is in fetchAndReplace.
InUpdate == pc \in {"fetch", "stage", "write", "verify", "rename"}

\* C11: a run whose snapshot fails ends at once, and so does a run whose
\* manifest request fails: main reports the error and exits with status 1 (or
\* the process dies in requestManifest), no fetch-artifact request has been
\* sent and no file of the host has changed.  No entry is compared or updated
\* while the process holds no manifest.
C11_CycleFatal ==
    [][ /\ (pc = "snapshot" /\ LoaderStep) =>
              /\ pc' \in {"manifest", "exit1"}
              /\ pc' = "exit1" => (failed' = "" /\ have' = <<>>)
        /\ (pc = "manifest" /\ LoaderStep) =>
              /\ pc' \in {"compare", "exit1", "panic"}
              /\ pc' = "compare" => ~apiManifest'.nil
              /\ pc' = "exit1" => failed' = ""
        /\ apiManifest.nil => (disk' = disk /\ fetched' = {} /\ fds' = 0)
        /\ apiManifest'.nil => (~InUpdate' /\ pc' # "compare")
      ]_vars

\* The snapshot was taken and the manifest request failed: the run is over
\* with status 1, nothing was fetched and no staged file was written.
C11_Witness ==
    /\ pc = "exit1"
    /\ failed = ""
    /\ have # <<>>
    /\ apiManifest.nil
    /\ fetched = {}
    /\ \A t \in TargetPaths : disk[StagedPath(t)] = NoFile

\* C12: HashBundle on the platform's dictionary, as the loader calls it: when
\* no open or read fails for another reason than a missing file, it returns
\* every entry of the dictionary, a missing file with the digest "" and a file
\* with the digest of its content; when one does, it returns the error and no
\* entry.
C12_SnapshotAllOrNothing ==
    pc = "snapshot" =>
        \A errAt \in 0..Len(dict) :
            LET h == HashBundle(dict, disk, errAt)
            IN  IF errAt = 0
                THEN /\ h.err = ""
                     /\ Len(h.ret) = Len(bundleEntryLinux)
                     /\ \A i \in 1..Len(h.ret) :
                           /\ h.ret[i].name = bundleEntryLinux[i].name
                           /\ h.ret[i].path = bundleEntryLinux[i].path
                           /\ h.ret[i].sha256 = DigestOf(disk[h.ret[i].path])
                ELSE /\ h.err # ""
                     /\ h.ret = <<>>

\* A snapshot of a host that has the agent and no configuration.
C12_Witness ==
    /\ pc = "manifest"
    /\ have[1].sha256 = Sha256Hex(disk["/sbin/mig-agent"].bytes)
    /\ disk["/sbin/mig-agent"].kind = "bytes"
    /\ disk["/etc/mig/mig-agent.cfg"].kind = "absent"
    /\ have[2].sha256 = ""

\* C13: a response without items, as the API sends with every 500, makes the
\* request function of the loader return an error, and main ends the run with
\* status 1.
C13_ErrorEnvelopeReturnsError ==
    (req # NoReq /\ resp.code = 500 /\ resp.items = <<>>) => pc = "exit1"

\* The file the API read for the fetch-artifact request it answered last.
ServedFile == FsLookup(srv, PathJoin(<<resp.root, "files", req.object>>))

\* File contents of every length up to 3, the empty one included.
ShortContents == UNION {[1..n -> 0..2] : n \in 0..3}

C15_DictionaryImmutable ==
    \A i \in 1..Len(dict) : dict[i].sha256 = ""

\* C16: outside the span between fetchAndReplace's os.OpenFile and its
\* fd.Close, the process holds no open file: every function that opened one
\* has closed it when it returns.
C16_HandlesClosed ==
    pc # "write" => fds = 0

\* C17: a staged path comes into existence only in the write step of the
\* update of its entry; when fetchAndReplace returns nil the staged path of the
\* entry does not exist; when it returns on a digest mismatch the staged path
\* holds the fetched content; a staged file goes away only by the rename.
C17_StagedLifecycle ==
    [][ \A t \in TargetPaths :
            /\ (disk[StagedPath(t)] = NoFile /\ disk'[StagedPath(t)] # NoFile)
                  => (pc = "stage" /\ t = have[idx].path)
            /\ (pc = "rename" /\ LoaderStep /\ t = have[idx].path)
                  => disk'[StagedPath(t)] = NoFile
            /\ (pc = "verify" /\ pc' = "exit1" /\ t = have[idx].path)
                  => disk'[StagedPath(t)] = BytesFile(filebuf)
            /\ (disk[StagedPath(t)] # NoFile /\ disk'[StagedPath(t)] = NoFile)
                  => (pc = "rename" /\ t = have[idx].path)
      ]_vars

\* C18: when fetchAndReplace returns nil, the file at the entry's path has the
\* digest sig.
C18_SuccessMeansReplaced ==
    [][ (pc = "rename" /\ LoaderStep)
            => DigestOf(disk'[have[idx].path]) = sig
      ]_vars

\* C19: a fetch-artifact request of the process carries the operator, os and
\* arch its fetch-manifest request carried.
C19_SameIdentity ==
    req.endpoint = "manifest/fetch" =>
        /\ req.operator = ManifestRequest.operator
        /\ req.os = ManifestRequest.os
        /\ req.arch = ManifestRequest.arch

(***************************************************************************)
(* One cycle of the loader in which nothing fails: the process is not      *)
(* killed, the server's files do not change, no request is lost or         *)
(* garbled, and no open, read, write or rename of a file fails.            *)
(***************************************************************************)
\* The step is one in which nothing outside the program failed.  A snapshot
\* that ends the run is GetHostBundle's refusal of the platform; a verify
\* that ends the run is a digest mismatch.
NoFault ==
    /\ pc' # "killed"
    /\ srv' = srv
    /\ pc' = "snapshot" => pc = "idle"
    /\ (pc = "snapshot" /\ pc' = "exit1") => goos # "linux"
    /\ pc \in {"manifest", "fetch", "stage", "write"} => pc' # "exit1"
    /\ pc = "fetch" => resp'.err # "read: input/output error"
    /\ (pc = "verify" /\ pc' = "exit1")
          => SignatureMismatch(sig, disk[StagedPath(have[idx].path)].bytes)
    /\ pc = "rename" => disk'[StagedPath(have[idx].path)] = NoFile

NextQuiet ==
    \/ Start /\ NoFault
    \/ InitializeHaveBundle /\ NoFault
    \/ RequestManifest /\ NoFault
    \/ CompareDone /\ NoFault
    \/ CheckEntry /\ NoFault
    \/ FetchFile /\ NoFault
    \/ OpenStaged /\ NoFault
    \/ WriteStaged /\ NoFault
    \/ VerifyStaged /\ NoFault
    \/ RenameStaged /\ NoFault

\* A started process runs until main returns or the process dies.
SpecQuiet == Init /\ [][NextQuiet]_vars /\ WF_vars(NextQuiet)

\* Every entry of the snapshot that the manifest names has, at its path, a
\* file with the digest the manifest records.
Converged ==
    \A i \in 1..Len(have) :
        ManifestDigests(have[i].name) # {}
            => DigestOf(disk[have[i].path]) \in ManifestDigests(have[i].name)

\* C20: a cycle that got the manifest and in which nothing failed ends by
\* main's return, with every entry the manifest names installed.
C20_Converges ==
    (pc \in {"exit0", "exit1", "panic"} /\ ~apiManifest.nil)
        => (pc = "exit0" /\ Converged)

====
